---- MODULE Spec2Model ----
(***************************************************************************)
(* The portal-network content item codec of ethportal-api                  *)
(* (src/ethportal-api/src/types/content_item.rs), the BlsSignature codec   *)
(* of trin-types (src/trin-types/src/consensus/signature.rs) and the       *)
(* payload store of the uTP test app (src/utp-testing/src/lib.rs).         *)
(*                                                                         *)
(* Byte strings are sequences over 0..255.  A Result is a record with a    *)
(* field tag: "Ok" (with val), "Err" (with kind "Ssz"/"Rlp" and err) or    *)
(* "Panic" (the thread unwinds: unwrap() on an Err, a slice length         *)
(* mismatch in copy_from_slice).                                           *)
(*                                                                         *)
(* The SSZ and RLP primitives live in the crates ssz, ssz_types and        *)
(* reth_rlp; they are written out here the way those crates compute them,  *)
(* byte by byte.  The three RLP payload types of reth_primitives are       *)
(* reduced to RLP lists with fewer fields, decoded and encoded by the      *)
(* same steps as the full types (list header, fields in order, consumed    *)
(* length against the header's payload length):                            *)
(*    Header            [number : u64, extra_data : bytes]                 *)
(*    Receipt           [cumulative_gas_used : u64]       (legacy form)    *)
(*    TransactionSigned [nonce : u64]                     (legacy form)    *)
(* A u64 is held as its big-endian bytes without leading zeros (at most    *)
(* 8), an H256 and a U256 as their 32 bytes.                               *)
(***************************************************************************)
EXTENDS Integers, Sequences, FiniteSets, TLC

(***************************************************************************)
(* Sizes.  The typenum bounds of the SSZ list types are scaled down; each  *)
(* stands for the constant named beside it.                                *)
(***************************************************************************)
\* typenum::U2048, bytes of SszEncodedHeader
MaxHeaderBytes == 5
\* typenum::U134217728, bytes of SszReceipt
MaxReceiptBytes == 3
\* typenum::U16384, elements of SszReceiptList
MaxReceipts == 2
\* typenum::U16777216, bytes of SszTransaction
MaxTxBytes == 3
\* typenum::U16384, elements of SszTransactionList
MaxTransactions == 2
\* typenum::U131072, bytes of SszUncles
MaxUnclesBytes == 7
\* typenum::U8192, records of EpochAccumulator
MaxEpochRecords == 2

EPOCH_ACC_PROOF_LEN == 15
\* bytes of an H256 and of a U256
H256Len == 32
\* ssz::BYTES_PER_LENGTH_OFFSET
BYTES_PER_LENGTH_OFFSET == 4
\* ssz::MAX_UNION_SELECTOR
MAX_UNION_SELECTOR == 127
\* an offset or length of 2^31 or more, too large for any buffer, is held as 2^31 - 1
Huge == (2^30 - 1) * 2 + 1

Byte == 0..255

Take(s, n) == SubSeq(s, 1, n)
Drop(s, n) == SubSeq(s, n + 1, Len(s))
Min(a, b) == IF a < b THEN a ELSE b

RECURSIVE Flatten(_)
Flatten(ss) == IF ss = <<>> THEN <<>> ELSE Head(ss) \o Flatten(Tail(ss))

Const(n, x) == [i \in 1..n |-> x]

(***************************************************************************)
(* Results                                                                 *)
(***************************************************************************)
Ok(v) == [tag |-> "Ok", val |-> v]
Panic == [tag |-> "Panic"]
\* ssz::DecodeError and reth_rlp::DecodeError, by kind
SszErr(k) == [tag |-> "Err", err |-> k]
RlpErr(k) == [tag |-> "Err", err |-> k]
\* DecodeError::UnionSelectorInvalid(u8) carries the selector
UnionSelectorInvalid(b) == [tag |-> "Err", err |-> "UnionSelectorInvalid", selector |-> b]
\* ContentItemDecodeError: From<reth_rlp::DecodeError>, From<ssz::DecodeError>
FromRlp(e) == [tag |-> "Err", kind |-> "Rlp", err |-> e]
FromSsz(e) == [tag |-> "Err", kind |-> "Ssz", err |-> e]

\* the ? operator: an error is returned at once, a value is passed on
Try(result, F(_)) == IF result.tag = "Ok" THEN F(result) ELSE result
\* ? through From: the error is converted on its way out
TryFrom(result, From(_), F(_)) == IF result.tag = "Ok" THEN F(result) ELSE From(result)
\* let x = ..
With(x, F(_)) == F(x)

(***************************************************************************)
(* RLP (crate reth_rlp).  A decoder takes the buffer and yields the value  *)
(* and the rest of the buffer (the advanced &mut &[u8]).                   *)
(***************************************************************************)
RlpOk(v, rest) == [tag |-> "Ok", val |-> v, rest |-> rest]

\* u64::from_be_bytes(static_left_pad(..)) of a length-of-length field
BeLength(bs) ==
    IF Len(bs) > 3 THEN Huge
    ELSE IF Len(bs) = 3 THEN bs[1] * 65536 + bs[2] * 256 + bs[3]
    ELSE IF Len(bs) = 2 THEN bs[1] * 256 + bs[2]
    ELSE IF Len(bs) = 1 THEN bs[1]
    ELSE 0

\* the long form of Header::decode: a length of length, then the length
RlpLongHeader(list, len_of_len, rest) ==
    IF Len(rest) < len_of_len THEN RlpErr("InputTooShort")
    ELSE IF rest[1] = 0 THEN RlpErr("LeadingZero")
    ELSE With(BeLength(Take(rest, len_of_len)), LAMBDA payload_length :
             IF payload_length < 56 THEN RlpErr("NonCanonicalSize")
             ELSE RlpOk([list |-> list, payload_length |-> payload_length],
                        Drop(rest, len_of_len)))

\* the branches of Header::decode on the first byte b of buf
RlpHeaderForm(b, buf, rest) ==
    IF b < 128 THEN RlpOk([list |-> FALSE, payload_length |-> 1], buf)
    ELSE IF b < 184 THEN
        IF b - 128 = 1 /\ Len(rest) = 0 THEN RlpErr("InputTooShort")
        ELSE IF b - 128 = 1 /\ rest[1] < 128 THEN RlpErr("NonCanonicalSingleByte")
        ELSE RlpOk([list |-> FALSE, payload_length |-> b - 128], rest)
    ELSE IF b < 192 THEN RlpLongHeader(FALSE, b - 183, rest)
    ELSE IF b < 248 THEN RlpOk([list |-> TRUE, payload_length |-> b - 192], rest)
    ELSE RlpLongHeader(TRUE, b - 247, rest)

\* reth_rlp::Header::decode
RlpHeaderDecode(buf) ==
    IF Len(buf) = 0 THEN RlpErr("InputTooShort")
    ELSE Try(RlpHeaderForm(buf[1], buf, Drop(buf, 1)), LAMBDA h :
             IF Len(h.rest) < h.val.payload_length THEN RlpErr("InputTooShort") ELSE h)

\* big-endian bytes of a length, leading zeros removed
BeBytes(n) ==
    IF n < 256 THEN <<n>>
    ELSE IF n < 65536 THEN <<n \div 256, n % 256>>
    ELSE <<n \div 65536, (n \div 256) % 256, n % 256>>

\* reth_rlp::Header::encode
RlpHeaderEncode(list, payload_length) ==
    IF payload_length < 56
    THEN <<(IF list THEN 192 ELSE 128) + payload_length>>
    ELSE <<(IF list THEN 247 ELSE 183) + Len(BeBytes(payload_length))>>
         \o BeBytes(payload_length)

\* <u64 as Decodable>::decode
RlpDecodeU64(buf) ==
    Try(RlpHeaderDecode(buf), LAMBDA h :
        IF h.val.list THEN RlpErr("UnexpectedList")
        ELSE IF h.val.payload_length > 8 THEN RlpErr("Overflow")
        ELSE IF h.val.payload_length > 0 /\ h.rest[1] = 0 THEN RlpErr("LeadingZero")
        ELSE RlpOk(Take(h.rest, h.val.payload_length), Drop(h.rest, h.val.payload_length)))

\* <u64 as Encodable>::encode
RlpEncodeU64(n) ==
    IF n = <<>> THEN <<128>>
    ELSE IF Len(n) = 1 /\ n[1] < 128 THEN n
    ELSE <<128 + Len(n)>> \o n

\* <Bytes as Decodable>::decode
RlpDecodeBytes(buf) ==
    Try(RlpHeaderDecode(buf), LAMBDA h :
        IF h.val.list THEN RlpErr("UnexpectedList")
        ELSE RlpOk(Take(h.rest, h.val.payload_length), Drop(h.rest, h.val.payload_length)))

\* <[u8] as Encodable>::encode
RlpEncodeBytes(bs) ==
    IF Len(bs) # 1 \/ bs[1] >= 128
    THEN RlpHeaderEncode(FALSE, Len(bs)) \o bs
    ELSE bs

\* <reth_primitives::Header as Decodable>::decode
RlpDecodeHeader(buf) ==
    Try(RlpHeaderDecode(buf), LAMBDA h :
        IF ~h.val.list THEN RlpErr("UnexpectedString")
        ELSE Try(RlpDecodeU64(h.rest), LAMBDA number :
             Try(RlpDecodeBytes(number.rest), LAMBDA extra_data :
                 IF Len(h.rest) - Len(extra_data.rest) # h.val.payload_length
                 THEN RlpErr("ListLengthMismatch")
                 ELSE RlpOk([number |-> number.val, extra_data |-> extra_data.val],
                            extra_data.rest))))

\* <reth_primitives::Header as Encodable>::encode
RlpEncodeHeader(header) ==
    With(RlpEncodeU64(header.number) \o RlpEncodeBytes(header.extra_data), LAMBDA payload :
         RlpHeaderEncode(TRUE, Len(payload)) \o payload)

\* an RLP list of one u64, the reduced Receipt and TransactionSigned
RlpDecodeList1(buf) ==
    Try(RlpHeaderDecode(buf), LAMBDA h :
        IF ~h.val.list THEN RlpErr("UnexpectedString")
        ELSE Try(RlpDecodeU64(h.rest), LAMBDA f :
                 IF Len(h.rest) - Len(f.rest) # h.val.payload_length
                 THEN RlpErr("ListLengthMismatch")
                 ELSE f))

RlpEncodeList1(n) ==
    With(RlpEncodeU64(n), LAMBDA payload : RlpHeaderEncode(TRUE, Len(payload)) \o payload)

\* <reth_primitives::Receipt as Decodable>::decode
RlpDecodeReceipt(buf) ==
    Try(RlpDecodeList1(buf), LAMBDA r : RlpOk([cumulative_gas_used |-> r.val], r.rest))

\* <reth_primitives::Receipt as Encodable>::encode
RlpEncodeReceipt(receipt) == RlpEncodeList1(receipt.cumulative_gas_used)

\* <reth_primitives::TransactionSigned as Decodable>::decode
RlpDecodeTransaction(buf) ==
    Try(RlpDecodeList1(buf), LAMBDA r : RlpOk([nonce |-> r.val], r.rest))

\* <reth_primitives::TransactionSigned as Encodable>::encode
RlpEncodeTransaction(tx) == RlpEncodeList1(tx.nonce)

\* the elements of <Vec<Header> as Decodable>::decode, read from the payload view
RECURSIVE RlpDecodeHeaders(_, _)
RlpDecodeHeaders(payload_view, to) ==
    IF payload_view = <<>> THEN Ok(to)
    ELSE Try(RlpDecodeHeader(payload_view), LAMBDA e :
             RlpDecodeHeaders(e.rest, Append(to, e.val)))

\* <Vec<Header> as Decodable>::decode
RlpDecodeHeaderList(buf) ==
    Try(RlpHeaderDecode(buf), LAMBDA h :
        IF ~h.val.list THEN RlpErr("UnexpectedString")
        ELSE Try(RlpDecodeHeaders(Take(h.rest, h.val.payload_length), <<>>), LAMBDA to :
                 RlpOk(to.val, Drop(h.rest, h.val.payload_length))))

\* <Vec<Header> as Encodable>::encode
RlpEncodeHeaderList(headers) ==
    With(Flatten([i \in 1..Len(headers) |-> RlpEncodeHeader(headers[i])]), LAMBDA payload :
         RlpHeaderEncode(TRUE, Len(payload)) \o payload)

(***************************************************************************)
(* SSZ (crates ssz and ssz_types)                                          *)
(***************************************************************************)
\* no previous offset, no fixed portion: the None of sanitize_offset's options
None == -1

\* ssz::read_offset: a little-endian u32
ReadOffset(bytes) ==
    IF Len(bytes) < BYTES_PER_LENGTH_OFFSET THEN SszErr("InvalidLengthPrefix")
    ELSE IF bytes[4] >= 128 THEN Ok(Huge)
    ELSE Ok(bytes[1] + bytes[2] * 256 + bytes[3] * 65536 + bytes[4] * 16777216)

\* ssz::encode_length: the offset as 4 little-endian bytes
EncodeOffset(n) == <<n % 256, (n \div 256) % 256, (n \div 65536) % 256, (n \div 16777216) % 256>>

\* ssz::sanitize_offset
SanitizeOffset(offset, previous_offset, num_bytes, num_fixed_bytes) ==
    IF num_fixed_bytes # None /\ offset < num_fixed_bytes
    THEN SszErr("OffsetIntoFixedPortion")
    ELSE IF previous_offset = None /\ num_fixed_bytes # None /\ offset # num_fixed_bytes
    THEN SszErr("OffsetSkipsVariableBytes")
    ELSE IF offset > num_bytes THEN SszErr("OffsetOutOfBounds")
    ELSE IF previous_offset # None /\ previous_offset > offset
    THEN SszErr("OffsetsAreDecreasing")
    ELSE Ok(offset)

\* the bound check of VariableList::from_ssz_bytes as a bug would have it: none
VariableListU8_unbounded(bytes, max_len) == Ok(bytes)

\* <VariableList<u8, N> as Decode>::from_ssz_bytes
VariableListU8_from_ssz_bytes(bytes, max_len) ==
    IF bytes = <<>> THEN Ok(<<>>)
    ELSE IF Len(bytes) > max_len THEN SszErr("BytesInvalid")
    ELSE Ok(bytes)

\* where item i of a list of num_items variable-length items ends: at the
\* next offset, or at the end of the bytes
ItemEnd(bytes, i, num_items, offset) ==
    IF i = num_items THEN Ok(Len(bytes))
    ELSE Try(ReadOffset(Drop(bytes, i * BYTES_PER_LENGTH_OFFSET)), LAMBDA o :
             SanitizeOffset(o.val, offset, Len(bytes), num_items * BYTES_PER_LENGTH_OFFSET))

\* the items of ssz::decode_list_of_variable_length_items from item i on, each a
\* VariableList<u8, item_max>; offset is where item i starts
RECURSIVE DecodeItems(_, _, _, _, _, _)
DecodeItems(bytes, i, num_items, offset, item_max, acc) ==
    IF i > num_items THEN Ok(acc)
    ELSE Try(ItemEnd(bytes, i, num_items, offset), LAMBDA next :
         Try(VariableListU8_from_ssz_bytes(SubSeq(bytes, offset + 1, next.val), item_max),
             LAMBDA item :
                DecodeItems(bytes, i + 1, num_items, next.val, item_max,
                            Append(acc, item.val))))

\* <VariableList<VariableList<u8, item_max>, max_len> as Decode>::from_ssz_bytes,
\* through ssz::decode_list_of_variable_length_items
VariableListOfBytes_from_ssz_bytes(bytes, max_len, item_max) ==
    IF bytes = <<>> THEN Ok(<<>>)
    ELSE Try(ReadOffset(bytes), LAMBDA r :
         Try(SanitizeOffset(r.val, None, Len(bytes), r.val), LAMBDA first_offset :
             IF \/ first_offset.val % BYTES_PER_LENGTH_OFFSET # 0
                \/ first_offset.val < BYTES_PER_LENGTH_OFFSET
             THEN SszErr("InvalidListFixedBytesLen")
             ELSE IF first_offset.val \div BYTES_PER_LENGTH_OFFSET > max_len
             THEN SszErr("BytesInvalid")
             ELSE DecodeItems(bytes, 1, first_offset.val \div BYTES_PER_LENGTH_OFFSET,
                              first_offset.val, item_max, <<>>)))

\* VariableList::from(Vec<T>): the vector, cut to the bound
VariableListFrom(vec, max_len) == Take(vec, Min(Len(vec), max_len))

\* <VariableList<VariableList<u8, _>, _> as Encode>::ssz_append: one offset per
\* item, then the items
VariableListOfBytes_ssz_bytes(items) ==
    Flatten([i \in 1..Len(items) |->
                EncodeOffset(Len(items) * BYTES_PER_LENGTH_OFFSET
                             + Len(Flatten(Take(items, i - 1))))])
    \o Flatten(items)

\* SszDecoderBuilder::build for two registered offsets: the first offset
\* against the fixed portion, then the two slices
Container2_build(bytes, o1, o2) ==
    IF o1 < 2 * BYTES_PER_LENGTH_OFFSET THEN SszErr("OffsetIntoFixedPortion")
    ELSE IF o1 > 2 * BYTES_PER_LENGTH_OFFSET THEN SszErr("OffsetSkipsVariableBytes")
    ELSE Ok(<<SubSeq(bytes, o1 + 1, o2), Drop(bytes, o2)>>)

\* SszDecoderBuilder::register_type twice and build, for a container of two
\* variable-length fields: the two slices
Container2_slices(bytes) ==
    Try(ReadOffset(bytes), LAMBDA r1 :
    Try(SanitizeOffset(r1.val, None, Len(bytes), None), LAMBDA o1 :
    Try(ReadOffset(Drop(bytes, BYTES_PER_LENGTH_OFFSET)), LAMBDA r2 :
    Try(SanitizeOffset(r2.val, o1.val, Len(bytes), None), LAMBDA o2 :
        Container2_build(bytes, o1.val, o2.val)))))

\* SszEncoder::container, append twice, finalize, for two variable-length fields
Container2_ssz_bytes(first, second) ==
    EncodeOffset(2 * BYTES_PER_LENGTH_OFFSET)
    \o EncodeOffset(2 * BYTES_PER_LENGTH_OFFSET + Len(first))
    \o first \o second

\* the chunks of bytes.chunks(size)
Chunks(bytes, size) ==
    [i \in 1..((Len(bytes) + size - 1) \div size) |->
        SubSeq(bytes, (i - 1) * size + 1, Min(i * size, Len(bytes)))]

\* <FixedVector<H256, U15> as Decode>::from_ssz_bytes
FixedVectorH256_from_ssz_bytes(bytes) ==
    IF bytes = <<>> THEN SszErr("InvalidByteLength")
    ELSE IF Len(bytes) \div H256Len # EPOCH_ACC_PROOF_LEN THEN SszErr("BytesInvalid")
    ELSE With(Chunks(bytes, H256Len), LAMBDA chunks :
              IF \E i \in 1..Len(chunks) : Len(chunks[i]) # H256Len
              THEN SszErr("InvalidByteLength")
              ELSE Ok(chunks))

\* <FixedVector<H256, U15> as Encode>::ssz_append
FixedVectorH256_ssz_bytes(proof) == Flatten(proof)

(***************************************************************************)
(* SszOption<T>, with T = SszHeaderProof                                   *)
(***************************************************************************)
\* ssz::split_union_bytes, UnionSelector::new
split_union_bytes(bytes) ==
    IF bytes = <<>> THEN SszErr("OutOfBoundsByte")
    ELSE IF bytes[1] > MAX_UNION_SELECTOR THEN UnionSelectorInvalid(bytes[1])
    ELSE Ok([selector |-> bytes[1], body |-> Drop(bytes, 1)])

\* Self(Some(t)) / Self(None)
SszSome(t) == Ok([some |-> TRUE, value |-> t.val])
SszNone == Ok([some |-> FALSE])

\* the match of SszOption::from_ssz_bytes as a bug would have it: any selector
\* but 0 is taken as Some
SszOption_match_lax(selector, body) ==
    IF selector = 0 THEN SszNone
    ELSE Try(FixedVectorH256_from_ssz_bytes(body), SszSome)

\* the match on the selector in SszOption::from_ssz_bytes
SszOption_match(selector, body) ==
    IF selector = 0 THEN SszNone
    ELSE IF selector = 1 THEN Try(FixedVectorH256_from_ssz_bytes(body), SszSome)
    ELSE UnionSelectorInvalid(selector)

\* <SszOption<T> as ssz::Decode>::from_ssz_bytes
SszOption_from_ssz_bytes(bytes) ==
    Try(split_union_bytes(bytes), LAMBDA s : SszOption_match(s.val.selector, s.val.body))

\* <SszOption<T> as ssz::Encode>::ssz_append, onto an empty buffer
SszOption_ssz_bytes(opt) ==
    IF opt.some THEN <<1>> \o FixedVectorH256_ssz_bytes(opt.value) ELSE <<0>>

\* <SszOption<T> as ssz::Encode>::ssz_append: the selector is pushed, then the
\* inner value is appended
SszOption_ssz_append(self, b) ==
    IF self.some THEN Append(b, 1) \o FixedVectorH256_ssz_bytes(self.value)
    ELSE Append(b, 0)

\* <FixedVector<H256, U15> as Encode>::ssz_bytes_len
FixedVectorH256_ssz_bytes_len(proof) == Len(proof) * H256Len

\* ssz_bytes_len as a bug would have it: the selector byte is not counted
SszOption_ssz_bytes_len_inner(self) ==
    IF self.some THEN FixedVectorH256_ssz_bytes_len(self.value) ELSE 1

\* <SszOption<T> as ssz::Encode>::ssz_bytes_len
SszOption_ssz_bytes_len(self) ==
    IF self.some THEN FixedVectorH256_ssz_bytes_len(self.value) + 1 ELSE 1

\* is_ssz_fixed_len of the Decode and of the Encode impl
SszOption_Decode_is_ssz_fixed_len == FALSE
SszOption_Encode_is_ssz_fixed_len == FALSE

(***************************************************************************)
(* impl ContentItem for Vec<Receipt>                                       *)
(***************************************************************************)
\* the SszReceiptList built in Vec<Receipt>::encode and its ssz_encode
VecReceipt_ssz(self) ==
    VariableListOfBytes_ssz_bytes(
        VariableListFrom(
            [i \in 1..Len(self) |-> VariableListFrom(RlpEncodeReceipt(self[i]), MaxReceiptBytes)],
            MaxReceipts))

\* Vec<u8>::append, Vec<u8>::extend_from_slice
VecAppend(buf, bytes) == Ok(buf \o bytes)

\* <[u8]>::copy_from_slice: panics unless the two slices are equally long
CopyFromSlice(buf, bytes) == IF Len(buf) = Len(bytes) THEN Ok(bytes) ELSE Panic

\* <Vec<Receipt> as ContentItem>::encode
VecReceipt_encode(self, buf) == CopyFromSlice(buf, VecReceipt_ssz(self))

\* the conversions of ContentItemDecodeError::from
ErrFromRlp(r) == FromRlp(r.err)
ErrFromSsz(r) ==
    IF r.err = "UnionSelectorInvalid"
    THEN [tag |-> "Err", kind |-> "Ssz", err |-> r.err, selector |-> r.selector]
    ELSE FromSsz(r.err)

\* the receipts collected from the blobs of the list, up to the first error
RECURSIVE CollectReceipts(_, _)
CollectReceipts(ssz, acc) ==
    IF ssz = <<>> THEN Ok(acc)
    ELSE TryFrom(RlpDecodeReceipt(Head(ssz)), ErrFromRlp, LAMBDA r :
                 CollectReceipts(Tail(ssz), Append(acc, r.val)))

\* <Vec<Receipt> as ContentItem>::decode
VecReceipt_decode(buf) ==
    TryFrom(VariableListOfBytes_from_ssz_bytes(buf, MaxReceipts, MaxReceiptBytes), ErrFromSsz,
            LAMBDA ssz : CollectReceipts(ssz.val, <<>>))

(***************************************************************************)
(* impl ContentItem for Header                                             *)
(***************************************************************************)
\* <Header as ContentItem>::encode
Header_encode(self, buf) == VecAppend(buf, RlpEncodeHeader(self))

\* <Header as ContentItem>::decode
Header_decode(buf) ==
    TryFrom(RlpDecodeHeader(buf), ErrFromRlp, LAMBDA header : Ok(header.val))

(***************************************************************************)
(* impl ContentItem for HeaderWithProof                                    *)
(***************************************************************************)
\* ssz_encode of the HeaderWithProofSszContainer built in HeaderWithProof::encode
HeaderWithProof_ssz(self) ==
    Container2_ssz_bytes(
        VariableListFrom(RlpEncodeHeader(self.header), MaxHeaderBytes),
        SszOption_ssz_bytes(self.proof))

\* <HeaderWithProof as ContentItem>::encode
HeaderWithProof_encode(self, buf) == VecAppend(buf, HeaderWithProof_ssz(self))

\* HeaderWithProofSszContainer::from_ssz_bytes
HeaderWithProofSszContainer_from_ssz_bytes(bytes) ==
    Try(Container2_slices(bytes), LAMBDA slices :
    Try(VariableListU8_from_ssz_bytes(slices.val[1], MaxHeaderBytes), LAMBDA header :
    Try(SszOption_from_ssz_bytes(slices.val[2]), LAMBDA proof :
        Ok([header |-> header.val, proof |-> proof.val]))))

\* <HeaderWithProof as ContentItem>::decode
HeaderWithProof_decode(buf) ==
    TryFrom(HeaderWithProofSszContainer_from_ssz_bytes(buf), ErrFromSsz, LAMBDA container :
    TryFrom(RlpDecodeHeader(container.val.header), ErrFromRlp, LAMBDA header :
            Ok([header |-> header.val, proof |-> container.val.proof])))

(***************************************************************************)
(* impl ContentItem for BlockBody                                          *)
(***************************************************************************)
\* ssz_encode of the BlockBodySszContainer built in BlockBody::encode
BlockBody_ssz(self) ==
    Container2_ssz_bytes(
        VariableListOfBytes_ssz_bytes(
            VariableListFrom(
                [i \in 1..Len(self.transactions) |->
                    VariableListFrom(RlpEncodeTransaction(self.transactions[i]), MaxTxBytes)],
                MaxTransactions)),
        VariableListFrom(RlpEncodeHeaderList(self.uncles), MaxUnclesBytes))

\* <BlockBody as ContentItem>::encode
BlockBody_encode(self, buf) == VecAppend(buf, BlockBody_ssz(self))

\* BlockBodySszContainer::from_ssz_bytes
BlockBodySszContainer_from_ssz_bytes(bytes) ==
    Try(Container2_slices(bytes), LAMBDA slices :
    Try(VariableListOfBytes_from_ssz_bytes(slices.val[1], MaxTransactions, MaxTxBytes),
        LAMBDA transactions :
    Try(VariableListU8_from_ssz_bytes(slices.val[2], MaxUnclesBytes), LAMBDA uncles :
        Ok([transactions |-> transactions.val, uncles |-> uncles.val]))))

\* Result::unwrap
Unwrap(result) == IF result.tag = "Ok" THEN result ELSE Panic

\* the transactions of the container, each decoded and unwrapped
UnwrapTransactions(blobs) ==
    With([i \in 1..Len(blobs) |-> Unwrap(RlpDecodeTransaction(blobs[i]))], LAMBDA txs :
         IF \E i \in 1..Len(txs) : txs[i].tag # "Ok"
         THEN txs[CHOOSE i \in 1..Len(txs) : txs[i].tag # "Ok"]
         ELSE Ok([i \in 1..Len(txs) |-> txs[i].val]))

\* <BlockBody as ContentItem>::decode
BlockBody_decode(buf) ==
    Try(Unwrap(BlockBodySszContainer_from_ssz_bytes(buf)), LAMBDA container :
    Try(UnwrapTransactions(container.val.transactions), LAMBDA transactions :
    Try(Unwrap(RlpDecodeHeaderList(container.val.uncles)), LAMBDA uncles :
        Ok([transactions |-> transactions.val, uncles |-> uncles.val]))))

(***************************************************************************)
(* impl ContentItem for EpochAccumulator                                   *)
(***************************************************************************)
\* bytes of a HeaderRecord: hash, then total_difficulty
HeaderRecordLen == 64

\* <HeaderRecord as Decode>::from_ssz_bytes
HeaderRecord_from_ssz_bytes(bytes) ==
    IF Len(bytes) # HeaderRecordLen THEN SszErr("InvalidByteLength")
    ELSE Ok([hash |-> Take(bytes, H256Len), total_difficulty |-> Drop(bytes, H256Len)])

\* <HeaderRecord as Encode>::ssz_append
HeaderRecord_ssz_bytes(record) == record.hash \o record.total_difficulty

\* the records of the chunks, or the first error among them
CollectRecords(chunks) ==
    With([i \in 1..Len(chunks) |-> HeaderRecord_from_ssz_bytes(chunks[i])], LAMBDA records :
         IF \E i \in 1..Len(records) : records[i].tag = "Err"
         THEN records[CHOOSE i \in 1..Len(records) : records[i].tag = "Err"]
         ELSE Ok([i \in 1..Len(records) |-> records[i].val]))

\* <VariableList<HeaderRecord, U8192> as Decode>::from_ssz_bytes
EpochAccumulator_from_ssz_bytes(bytes) ==
    IF bytes = <<>> THEN Ok(<<>>)
    ELSE IF Len(bytes) \div HeaderRecordLen > MaxEpochRecords THEN SszErr("BytesInvalid")
    ELSE CollectRecords(Chunks(bytes, HeaderRecordLen))

\* <VariableList<HeaderRecord, U8192> as Encode>::ssz_append
EpochAccumulator_ssz(self) == Flatten([i \in 1..Len(self) |-> HeaderRecord_ssz_bytes(self[i])])

\* <EpochAccumulator as ContentItem>::encode
EpochAccumulator_encode(self, buf) == VecAppend(buf, EpochAccumulator_ssz(self))

\* <EpochAccumulator as ContentItem>::decode
EpochAccumulator_decode(buf) ==
    TryFrom(EpochAccumulator_from_ssz_bytes(buf), ErrFromSsz, LAMBDA acc : Ok(acc.val))

(***************************************************************************)
(* Hex strings: sequences of one-character strings                         *)
(***************************************************************************)
HexDigits == <<"0", "1", "2", "3", "4", "5", "6", "7", "8", "9", "a", "b", "c", "d", "e", "f">>
HexUpper == <<"0", "1", "2", "3", "4", "5", "6", "7", "8", "9", "A", "B", "C", "D", "E", "F">>

\* hex::encode
HexEncode(bytes) ==
    [i \in 1..(2 * Len(bytes)) |->
        IF i % 2 = 1 THEN HexDigits[(bytes[(i + 1) \div 2] \div 16) + 1]
        ELSE HexDigits[(bytes[i \div 2] % 16) + 1]]

\* the value of a hex digit of either case, -1 for any other character
HexVal(c) ==
    IF \E d \in 1..16 : HexDigits[d] = c THEN (CHOOSE d \in 1..16 : HexDigits[d] = c) - 1
    ELSE IF \E d \in 1..16 : HexUpper[d] = c THEN (CHOOSE d \in 1..16 : HexUpper[d] = c) - 1
    ELSE -1

\* hex::decode
HexDecode(s) ==
    IF Len(s) % 2 # 0 THEN [tag |-> "Err", kind |-> "Custom", err |-> "OddLength"]
    ELSE IF \E i \in 1..Len(s) : HexVal(s[i]) = -1
    THEN [tag |-> "Err", kind |-> "Custom", err |-> "InvalidHexCharacter"]
    ELSE Ok([i \in 1..(Len(s) \div 2) |-> HexVal(s[2 * i - 1]) * 16 + HexVal(s[2 * i])])

\* str::strip_prefix("0x").unwrap_or(&s)
StripPrefix0x(s) == IF Len(s) >= 2 /\ s[1] = "0" /\ s[2] = "x" THEN Drop(s, 2) ELSE s

(***************************************************************************)
(* BlsSignature (src/trin-types/src/consensus/signature.rs)                *)
(***************************************************************************)
\* bytes of BlsSignature::signature
BLS_SIGNATURE_LEN == 96

\* trin_utils::bytes::hex_encode: "0x", then the lower-case hex
hex_encode(data) == <<"0", "x">> \o HexEncode(data)

\* trin_utils::bytes::hex_decode: the "0x" prefix is required
hex_decode(data) ==
    IF Len(data) < 2 \/ Take(data, 2) # <<"0", "x">>
    THEN [tag |-> "Err", kind |-> "Custom", err |-> "WrongPrefix"]
    ELSE HexDecode(Drop(data, 2))

\* let mut signature = [0u8; 96]; signature.copy_from_slice(bytes); Ok(Self { signature })
BlsSignature_from_slice(bytes) ==
    Try(CopyFromSlice(Const(BLS_SIGNATURE_LEN, 0), bytes), LAMBDA signature :
        Ok([signature |-> signature.val]))

\* <BlsSignature as Decode>::from_ssz_bytes
BlsSignature_from_ssz_bytes(bytes) == BlsSignature_from_slice(bytes)

\* <BlsSignature as Encode>::ssz_append
BlsSignature_ssz_append(self, b) == b \o self.signature

\* <BlsSignature as Deserialize>::deserialize
BlsSignature_deserialize(s) ==
    Try(hex_decode(s), LAMBDA result : BlsSignature_from_slice(result.val))

(***************************************************************************)
(* HistoryContentItem                                                      *)
(***************************************************************************)
WrongVariant ==
    [tag |-> "Err", kind |-> "Custom",
     err |-> "unable to deserialize to any history content item"]

\* the chain of `if let Ok(item) = ...` of deserialize, given the five results
TrialDecode(hwp, header, body, receipts, acc) ==
    IF hwp.tag = "Ok" THEN Ok([variant |-> "BlockHeaderWithProof", item |-> hwp.val])
    ELSE IF header.tag = "Ok" THEN Ok([variant |-> "BlockHeader", item |-> header.val])
    ELSE IF body.tag = "Panic" THEN Panic
    ELSE IF body.tag = "Ok" THEN Ok([variant |-> "BlockBody", item |-> body.val])
    ELSE IF receipts.tag = "Ok" THEN Ok([variant |-> "Receipts", item |-> receipts.val])
    ELSE IF acc.tag = "Ok" THEN Ok([variant |-> "EpochAccumulator", item |-> acc.val])
    ELSE WrongVariant

\* the trial decoding of deserialize
Dispatch(content_bytes) ==
    TrialDecode(HeaderWithProof_decode(content_bytes),
                Header_decode(content_bytes),
                BlockBody_decode(content_bytes),
                VecReceipt_decode(content_bytes),
                EpochAccumulator_decode(content_bytes))

\* <HistoryContentItem as Deserialize>::deserialize
HistoryContentItem_deserialize(s) ==
    Try(HexDecode(StripPrefix0x(s)), LAMBDA content_bytes : Dispatch(content_bytes.val))

(***************************************************************************)
(* The values and byte strings the operations are applied to               *)
(***************************************************************************)
\* bytes changed in an encoding, and how many of its leading bytes are changed
MutPrefix == 14
MutBytes == {0, 1, 2, 4, 128, 200, 255}
Suffixes == {<<0>>, <<1, 2>>}

SeqsUpTo(S, n) == UNION {[1..k -> S] : k \in 0..n}

NumPool == {<<>>, <<1>>, <<128>>, <<1, 0>>, <<1, 0, 0>>}
ExtraPool == {<<>>, <<128>>}
HeaderPool == [number : NumPool, extra_data : ExtraPool]
Headers == {h \in HeaderPool : Len(RlpEncodeHeader(h)) <= MaxHeaderBytes}

Hash(x) == Const(H256Len, x)
Proofs == {Const(EPOCH_ACC_PROOF_LEN, Hash(0)), [i \in 1..EPOCH_ACC_PROOF_LEN |-> Hash(i)]}
Options == {[some |-> FALSE]} \cup {[some |-> TRUE, value |-> p] : p \in Proofs}
HeadersWithProof == [header : Headers, proof : Options]

ReceiptPool == [cumulative_gas_used : NumPool]
Receipts == {r \in ReceiptPool : Len(RlpEncodeReceipt(r)) <= MaxReceiptBytes}
ReceiptLists == SeqsUpTo(Receipts, MaxReceipts)

TxPool == [nonce : NumPool \ {<<1>>}]
Transactions == {t \in TxPool : Len(RlpEncodeTransaction(t)) <= MaxTxBytes}
Uncle0 == [number |-> <<>>, extra_data |-> <<>>]
Uncle1 == [number |-> <<1>>, extra_data |-> <<>>]
UnclePool == {<<>>, <<Uncle0>>, <<Uncle1>>, <<Uncle0, Uncle1>>, <<Uncle0, Uncle1, Uncle0>>}
UncleLists == {u \in UnclePool : Len(RlpEncodeHeaderList(u)) <= MaxUnclesBytes}
BlockBodies == [transactions : SeqsUpTo(Transactions, MaxTransactions), uncles : UncleLists]

HeaderRecords == [hash : {Hash(0), Hash(171)},
                  total_difficulty : {Const(H256Len, 0), <<1>> \o Const(H256Len - 1, 0)}]
EpochAccumulators == SeqsUpTo(HeaderRecords, MaxEpochRecords)

Variants == {"HeaderWithProof", "Header", "BlockBody", "Receipts", "EpochAccumulator"}

ItemsOf(V) ==
    CASE V = "HeaderWithProof" -> HeadersWithProof
      [] V = "Header" -> Headers
      [] V = "BlockBody" -> BlockBodies
      [] V = "Receipts" -> ReceiptLists
      [] V = "EpochAccumulator" -> EpochAccumulators

\* values the types admit though a size exceeds its bound: the fields are plain
\* Header, Vec<TransactionSigned>, Vec<Header> and Vec<Receipt>.  An
\* EpochAccumulator is a VariableList itself and has none.
OverBoundItems(V) ==
    CASE V = "HeaderWithProof" -> [header : HeaderPool \ Headers, proof : Options]
      [] V = "BlockBody" ->
            [transactions : {Const(MaxTransactions + 1, t) : t \in Transactions}, uncles : {<<>>}]
            \cup [transactions : {<<t>> : t \in TxPool \ Transactions}, uncles : {<<>>}]
            \cup [transactions : {<<>>}, uncles : UnclePool \ UncleLists]
      [] V = "Receipts" ->
            {Const(MaxReceipts + 1, r) : r \in Receipts}
            \cup {<<r>> : r \in ReceiptPool \ Receipts}
      [] OTHER -> {}

\* the encoding of an in-bounds item: what its encode puts into an empty Vec
\* (for a receipt list, what Vec<Receipt>::encode hands to copy_from_slice)
Encoding(V, v) ==
    CASE V = "HeaderWithProof" -> HeaderWithProof_ssz(v)
      [] V = "Header" -> RlpEncodeHeader(v)
      [] V = "BlockBody" -> BlockBody_ssz(v)
      [] V = "Receipts" -> VecReceipt_ssz(v)
      [] V = "EpochAccumulator" -> EpochAccumulator_ssz(v)

ValidBytes(V) == {Encoding(V, v) : v \in ItemsOf(V)}
AllValidBytes == UNION {ValidBytes(V) : V \in Variants}

\* encodings with a list or a blob one past its bound
OverBoundBytes ==
    {Container2_ssz_bytes(RlpEncodeHeader(h), <<0>>) : h \in HeaderPool \ Headers}
    \cup {VariableListOfBytes_ssz_bytes(<<RlpEncodeReceipt(r)>>) : r \in ReceiptPool \ Receipts}
    \cup {VariableListOfBytes_ssz_bytes(Const(MaxReceipts + 1, <<193, 128>>))}
    \cup {Container2_ssz_bytes(VariableListOfBytes_ssz_bytes(<<RlpEncodeTransaction(t)>>), <<192>>) :
            t \in TxPool \ Transactions}
    \cup {Container2_ssz_bytes(VariableListOfBytes_ssz_bytes(Const(MaxTransactions + 1, <<193, 128>>)),
                               <<192>>)}
    \cup {Container2_ssz_bytes(<<>>, RlpEncodeHeaderList(u)) : u \in UnclePool \ UncleLists}
    \cup {Flatten(Const(MaxEpochRecords + 1, Const(HeaderRecordLen, 0)))}

\* an encoding with one of its leading bytes changed
Mutated(e) ==
    {[e EXCEPT ![i] = x] : i \in 1..Min(Len(e), MutPrefix), x \in MutBytes} \ {e}

\* an encoding with its union selector (the byte after the header blob) changed
SelectorSet(e, x) ==
    LET o2 == ReadOffset(Drop(e, BYTES_PER_LENGTH_OFFSET)).val IN [e EXCEPT ![o2 + 1] = x]

\* HeaderWithProof encodings with the union selector changed to 2
SelectorSwapped == {SelectorSet(e, 2) : e \in ValidBytes("HeaderWithProof")}

\* the byte strings handed to SszOption::from_ssz_bytes beside the others
OptionBytes ==
    {<<>>, <<1>>, <<1, 0>>}
    \cup {<<x>> : x \in {0, 2, 127, 128, 255}}
    \cup {<<x>> \o FixedVectorH256_ssz_bytes(p) : x \in {0, 1, 2, 255}, p \in Proofs}
    \cup {<<1>> \o FixedVectorH256_ssz_bytes(p) \o <<0>> : p \in Proofs}

\* byte strings of the length of a BLS signature, and one byte off it
BlsBytes ==
    {Const(BLS_SIGNATURE_LEN - 1, 7), Const(BLS_SIGNATURE_LEN, 7),
     [i \in 1..BLS_SIGNATURE_LEN |-> i], Const(BLS_SIGNATURE_LEN + 1, 7)}

\* the byte strings given to the BlsSignature decoders
BlsInputs == BlsBytes \cup {<<>>, <<0>>} \cup ValidBytes("Header")

Inputs ==
    AllValidBytes
    \cup BlsBytes
    \cup {e \o s : e \in AllValidBytes, s \in Suffixes}
    \cup UNION {Mutated(e) : e \in AllValidBytes}
    \cup {Take(e, Len(e) - 1) : e \in AllValidBytes \ {<<>>}}
    \cup SelectorSwapped
    \cup {SelectorSet(e, 255) : e \in ValidBytes("HeaderWithProof")}
    \cup OverBoundBytes
    \cup OptionBytes

\* the contents of the Vec<u8> an item is encoded into
InitBufs == {<<>>, <<7>>, Const(6, 7)}

NoItem == [variant |-> "None"]
NoResult == [tag |-> "None"]

(***************************************************************************)
(* The state machine: one operation of the codec applied to an input, and  *)
(* the inverse operation applied to its result.                            *)
(***************************************************************************)
VARIABLES
    input,      \* the byte string given to a decoder (behind the string, for deserialize)
    str,        \* the string given to deserialize
    item,       \* the content item given to encode, or NoItem
    buf0,       \* the Vec<u8> handed to encode, as it was before the call
    buf,        \* that Vec<u8>
    out,        \* the result of the last operation
    variant,    \* the variant whose codec was applied
    pc,         \* which operations have been applied
    utp_payload,    \* TestApp::utp_payload, the Vec behind the RwLock
    lock,           \* who holds the RwLock: the readers and the writer
    recv,           \* the receive tasks spawned by prepare_to_recv
    rpc             \* the calls of get_utp_payload

codecVars == <<input, str, item, buf0, buf, out, variant, pc>>
utpVars == <<utp_payload, lock, recv, rpc>>
vars == <<codecVars, utpVars>>

\* how many times prepare_to_recv and get_utp_payload are called
MaxRecvTasks == 2
MaxGetCalls == 1
RecvTasks == 1..MaxRecvTasks
GetCalls == 1..MaxGetCalls

\* the RwLock with no reader and no writer
NoWriter == 0
Unlocked == [readers |-> {}, writer |-> NoWriter]

\* run_test_app: utp_payload: Arc::new(RwLock::new(Vec::new())), nothing called yet
TestAppNew ==
    /\ utp_payload = <<>>
    /\ lock = Unlocked
    /\ recv = [t \in RecvTasks |-> [pc |-> "idle", data |-> <<>>]]
    /\ rpc = [g \in GetCalls |-> [pc |-> "idle", result |-> <<>>]]

Init ==
    /\ TestAppNew
    /\ \/ input \in Inputs /\ item = NoItem /\ buf0 = <<>>
       \/ /\ input = <<>>
          /\ \E V \in Variants : \E v \in ItemsOf(V) \cup OverBoundItems(V) :
                item = [variant |-> V, val |-> v]
          /\ buf0 \in InitBufs
    /\ str = <<>>
    /\ buf = buf0
    /\ out = NoResult
    /\ variant = "None"
    /\ pc = "start"

DecodeOf(V, bytes) ==
    CASE V = "HeaderWithProof" -> HeaderWithProof_decode(bytes)
      [] V = "Header" -> Header_decode(bytes)
      [] V = "BlockBody" -> BlockBody_decode(bytes)
      [] V = "Receipts" -> VecReceipt_decode(bytes)
      [] V = "EpochAccumulator" -> EpochAccumulator_decode(bytes)

EncodeOf(V, self, b) ==
    CASE V = "HeaderWithProof" -> HeaderWithProof_encode(self, b)
      [] V = "Header" -> Header_encode(self, b)
      [] V = "BlockBody" -> BlockBody_encode(self, b)
      [] V = "Receipts" -> VecReceipt_encode(self, b)
      [] V = "EpochAccumulator" -> EpochAccumulator_encode(self, b)

\* <HistoryContentItem as Serialize>::serialize: the variant's encode into
\* Vec::new(), then "0x" and the hex of the bytes
HistoryContentItem_serialize(self) ==
    Try(EncodeOf(self.variant, self.val, <<>>), LAMBDA encoded :
        Ok(<<"0", "x">> \o HexEncode(encoded.val)))

\* V::decode(&input), or V::decode(&buf) of what V::encode wrote into an empty Vec
Decode(V) ==
    \/ /\ pc = "start" /\ item = NoItem
       /\ out' = DecodeOf(V, input)
       /\ variant' = V
       /\ pc' = "decoded"
       /\ UNCHANGED <<input, str, item, buf0, buf>>
       /\ UNCHANGED utpVars
    \/ /\ pc = "encoded" /\ variant = V /\ out.tag = "Ok" /\ buf0 = <<>>
       /\ out' = DecodeOf(V, buf)
       /\ pc' = "redecoded"
       /\ UNCHANGED <<input, str, item, buf0, buf, variant>>
       /\ UNCHANGED utpVars

\* the effect of encode on the buffer: left as it was when the call panics
Encoded(result, b) == IF result.tag = "Ok" THEN result.val ELSE b

\* item.encode(&mut buf), or decoded.encode(&mut Vec::new()) of what V::decode gave
Encode(V) ==
    \/ /\ pc = "start" /\ item.variant = V
       /\ out' = [tag |-> EncodeOf(V, item.val, buf).tag]
       /\ buf' = Encoded(EncodeOf(V, item.val, buf), buf)
       /\ variant' = V
       /\ pc' = "encoded"
       /\ UNCHANGED <<input, str, item, buf0>>
       /\ UNCHANGED utpVars
    \/ /\ pc = "decoded" /\ variant = V /\ out.tag = "Ok"
       /\ out' = [tag |-> EncodeOf(V, out.val, buf).tag, val |-> out.val]
       /\ buf' = Encoded(EncodeOf(V, out.val, buf), buf)
       /\ pc' = "reencoded"
       /\ UNCHANGED <<input, str, item, buf0, variant>>
       /\ UNCHANGED utpVars

DecodeHeaderWithProof == Decode("HeaderWithProof")
DecodeHeader == Decode("Header")
DecodeBlockBody == Decode("BlockBody")
DecodeReceipts == Decode("Receipts")
DecodeEpochAccumulator == Decode("EpochAccumulator")
EncodeHeaderWithProof == Encode("HeaderWithProof")
EncodeHeader == Encode("Header")
EncodeBlockBody == Encode("BlockBody")
EncodeReceipts == Encode("Receipts")
EncodeEpochAccumulator == Encode("EpochAccumulator")

\* the lower-case hex h of the content bytes, with or without "0x"
Canonical(h) == {h, <<"0", "x">> \o h}

\* h in upper-case digits
Upper(h) == [i \in 1..Len(h) |-> HexUpper[HexVal(h[i]) + 1]]

\* other strings made from h: the prefix in upper case, upper-case digits, an
\* odd number of digits, a character that is no hex digit
Framings(h) ==
    {<<"0", "X">> \o h, Upper(h), h \o <<"0">>, <<"0", "x">> \o h \o <<"0", "z">>} \ Canonical(h)

\* the content bytes whose hex is also given in the other framings
FramedInputs == {<<0>>} \cup ValidBytes("Header") \cup ValidBytes("Receipts")

\* the strings given to deserialize for the content bytes
Strings(bytes) ==
    Canonical(HexEncode(bytes))
    \cup (IF bytes \in FramedInputs THEN Framings(HexEncode(bytes)) ELSE {})

\* HistoryContentItem::deserialize of the hex of input, with or without "0x"
\* (pc "deserialized"), or of another string made from it (pc "framed")
Deserialize ==
    /\ pc = "start" /\ item = NoItem
    /\ \E s \in Strings(input) :
          /\ str' = s
          /\ out' = HistoryContentItem_deserialize(s)
          /\ pc' = IF s \in Canonical(HexEncode(input)) THEN "deserialized" ELSE "framed"
    /\ UNCHANGED <<input, item, buf0, buf, variant>>
    /\ UNCHANGED utpVars

\* serde serialization of the HistoryContentItem holding item
Serialize ==
    /\ pc = "start" /\ item # NoItem /\ buf0 = <<>>
    /\ out' = HistoryContentItem_serialize(item)
    /\ variant' = item.variant
    /\ pc' = "serialized"
    /\ UNCHANGED <<input, str, item, buf0, buf>>
    /\ UNCHANGED utpVars

\* SszOption::<SszHeaderProof>::from_ssz_bytes(&input)
SszOptionFromSszBytes ==
    /\ pc = "start" /\ item = NoItem
    /\ out' = SszOption_from_ssz_bytes(input)
    /\ pc' = "union_decoded"
    /\ UNCHANGED <<input, str, item, buf0, buf, variant>>
    /\ UNCHANGED utpVars

\* SszOption(item.proof).ssz_append(&mut buf), with what ssz_bytes_len and
\* is_ssz_fixed_len report for it
SszOptionSszAppend ==
    /\ pc = "start" /\ item.variant = "HeaderWithProof"
    /\ buf' = SszOption_ssz_append(item.val.proof, buf)
    /\ out' = Ok([ssz_bytes_len |-> SszOption_ssz_bytes_len(item.val.proof),
                  is_ssz_fixed_len |-> SszOption_Encode_is_ssz_fixed_len])
    /\ pc' = "union_encoded"
    /\ UNCHANGED <<input, str, item, buf0, variant>>
    /\ UNCHANGED utpVars

\* BlsSignature::from_ssz_bytes(&input), then ssz_append of the signature it
\* gave into an empty Vec
BlsFromSszBytes ==
    \/ /\ pc = "start" /\ item = NoItem /\ input \in BlsInputs
       /\ out' = BlsSignature_from_ssz_bytes(input)
       /\ pc' = "bls_decoded"
       /\ UNCHANGED <<input, str, item, buf0, buf, variant>>
       /\ UNCHANGED utpVars
    \/ /\ pc = "bls_decoded" /\ out.tag = "Ok"
       /\ buf' = BlsSignature_ssz_append(out.val, buf)
       /\ pc' = "bls_encoded"
       /\ UNCHANGED <<input, str, item, buf0, out, variant>>
       /\ UNCHANGED utpVars

\* serde deserialization of a BlsSignature from the "0x"-prefixed hex of
\* input, or from that string with one more digit
BlsDeserialize ==
    /\ pc = "start" /\ item = NoItem /\ input \in BlsInputs
    /\ \E s \in {hex_encode(input), hex_encode(input) \o <<"0">>} :
          /\ str' = s
          /\ out' = BlsSignature_deserialize(s)
    /\ pc' = "bls_deserialized"
    /\ UNCHANGED <<input, item, buf0, buf, variant>>
    /\ UNCHANGED utpVars

Next ==
    \/ DecodeHeaderWithProof \/ DecodeHeader \/ DecodeBlockBody
    \/ DecodeReceipts \/ DecodeEpochAccumulator
    \/ EncodeHeaderWithProof \/ EncodeHeader \/ EncodeBlockBody
    \/ EncodeReceipts \/ EncodeEpochAccumulator
    \/ Serialize
    \/ Deserialize
    \/ SszOptionFromSszBytes
    \/ SszOptionSszAppend
    \/ BlsFromSszBytes
    \/ BlsDeserialize

Spec == Init /\ [][Next]_vars

(***************************************************************************)
(* The uTP test app (src/utp-testing/src/lib.rs): the receive tasks        *)
(* spawned by prepare_to_recv and the calls of get_utp_payload, sharing    *)
(* utp_payload behind a tokio RwLock.  Each step between two awaits is an  *)
(* action.                                                                 *)
(***************************************************************************)
\* what a connection may deliver before end-of-stream: data[..n]
Payloads == {<<>>, <<1>>, <<2, 3>>}

\* "false".to_string()
False == <<"f", "a", "l", "s", "e">>

\* RwLock::read / RwLock::write are granted
CanRead(l) == l.writer = NoWriter
CanWrite(l) == l.writer = NoWriter /\ l.readers = {}

\* Vec::push as a bug would have it: the payload is put in front
VecInsertFront(v, x) == <<x>> \o v

\* Vec::push
VecPush(v, x) == Append(v, x)

\* <[T]>::last
VecLast(v) == IF v = <<>> THEN [some |-> FALSE] ELSE [some |-> TRUE, value |-> v[Len(v)]]

\* the match of get_utp_payload on the last payload
GetResult(last) == IF last.some THEN hex_encode(last.value) ELSE False

\* prepare_to_recv: the ENR is parsed and unwrapped, the task is spawned
PrepareToRecv(t) ==
    /\ recv[t].pc = "idle"
    /\ \E enr_ok \in BOOLEAN :
          recv' = [recv EXCEPT ![t].pc = IF enr_ok THEN "spawned" ELSE "panicked"]
    /\ UNCHANGED <<utp_payload, lock, rpc>>
    /\ UNCHANGED codecVars

\* utp.accept_with_cid(cid).await.unwrap()
Accept(t) ==
    /\ recv[t].pc = "spawned"
    /\ \E ok \in BOOLEAN :
          recv' = [recv EXCEPT ![t].pc = IF ok THEN "accepted" ELSE "panicked"]
    /\ UNCHANGED <<utp_payload, lock, rpc>>
    /\ UNCHANGED codecVars

\* conn.read_to_eof(&mut data).await.unwrap()
ReadToEof(t) ==
    /\ recv[t].pc = "accepted"
    /\ \/ \E data \in Payloads : recv' = [recv EXCEPT ![t] = [pc |-> "read", data |-> data]]
       \/ recv' = [recv EXCEPT ![t].pc = "panicked"]
    /\ UNCHANGED <<utp_payload, lock, rpc>>
    /\ UNCHANGED codecVars

\* payload_store.write().await: the write guard is granted
AcquireWrite(t) ==
    /\ recv[t].pc = "read"
    /\ CanWrite(lock)
    /\ lock' = [lock EXCEPT !.writer = t]
    /\ recv' = [recv EXCEPT ![t].pc = "writing"]
    /\ UNCHANGED <<utp_payload, rpc>>
    /\ UNCHANGED codecVars

\* .push(data[..n].to_vec()), and the guard is dropped
PushPayload(t) ==
    /\ recv[t].pc = "writing"
    /\ utp_payload' = VecPush(utp_payload, recv[t].data)
    /\ lock' = [lock EXCEPT !.writer = NoWriter]
    /\ recv' = [recv EXCEPT ![t].pc = "done"]
    /\ UNCHANGED rpc
    /\ UNCHANGED codecVars

\* get_utp_payload: self.utp_payload.read().await, the read guard is granted
AcquireRead(g) ==
    /\ rpc[g].pc = "idle"
    /\ CanRead(lock)
    /\ lock' = [lock EXCEPT !.readers = @ \cup {g}]
    /\ rpc' = [rpc EXCEPT ![g].pc = "reading"]
    /\ UNCHANGED <<utp_payload, recv>>
    /\ UNCHANGED codecVars

\* get_utp_payload: the last payload is matched, the result returned and the
\* guard dropped
GetUtpPayload(g) ==
    /\ rpc[g].pc = "reading"
    /\ rpc' = [rpc EXCEPT ![g] = [pc |-> "returned", result |-> GetResult(VecLast(utp_payload))]]
    /\ lock' = [lock EXCEPT !.readers = @ \ {g}]
    /\ UNCHANGED <<utp_payload, recv>>
    /\ UNCHANGED codecVars

\* the test app alone: no codec operation is applied
UtpInit ==
    /\ TestAppNew
    /\ input = <<>> /\ str = <<>> /\ item = NoItem /\ buf0 = <<>> /\ buf = <<>>
    /\ out = NoResult /\ variant = "None" /\ pc = "utp"

UtpNext ==
    \/ \E t \in RecvTasks :
          PrepareToRecv(t) \/ Accept(t) \/ ReadToEof(t) \/ AcquireWrite(t) \/ PushPayload(t)
    \/ \E g \in GetCalls : AcquireRead(g) \/ GetUtpPayload(g)

UtpSpec == UtpInit /\ [][UtpNext]_vars

(***************************************************************************)
(* The claims                                                              *)
(***************************************************************************)
\* the item handed to encode or serialize respects the declared bounds
InBounds == item # NoItem /\ item.val \in ItemsOf(item.variant)

\* C1: for every variant and every byte string that the variant's decode
\* accepts, encoding the decoded value into an empty buffer completes and
\* gives back exactly that byte string.
C1_RoundTripBytes ==
    pc = "reencoded" => (out.tag = "Ok" /\ buf = input)

\* C2: for every variant and every in-bounds value, encode into an empty
\* buffer completes, and decode of the bytes it wrote succeeds and returns a
\* value equal to the one encoded.
C2_RoundTripValue ==
    /\ (pc = "encoded" /\ buf0 = <<>> /\ InBounds) => out.tag = "Ok"
    /\ (pc = "redecoded" /\ InBounds) => (out.tag = "Ok" /\ out.val = item.val)

\* C3: for every variant, every in-bounds item and every initial content of
\* buf, encode completes and leaves in buf its previous content followed by
\* the item's encoding.
C3_EncodeAppends ==
    (pc = "encoded" /\ InBounds) =>
        (out.tag = "Ok" /\ buf = buf0 \o Encoding(variant, item.val))

\* C4: on every byte string, each variant's decode returns a value or a
\* ContentItemDecodeError (Ssz or Rlp); it never panics.
C4_DecodeTotal ==
    pc = "decoded" =>
        \/ out.tag = "Ok"
        \/ out.tag = "Err" /\ out.kind \in {"Ssz", "Rlp"}

\* the decoders in the order deserialize tries them, and the variant each gives
Order == <<"HeaderWithProof", "Header", "BlockBody", "Receipts", "EpochAccumulator">>
VariantName ==
    <<"BlockHeaderWithProof", "BlockHeader", "BlockBody", "Receipts", "EpochAccumulator">>
Succeeds(k, bytes) == DecodeOf(Order[k], bytes).tag = "Ok"

\* C5: on every input that at least one decoder accepts, deserialize returns
\* the variant, and the value, of the earliest decoder in the order that
\* accepts it.
C5_DispatchEarliest ==
    (pc = "deserialized" /\ \E k \in 1..5 : Succeeds(k, input)) =>
        \E k \in 1..5 :
            /\ Succeeds(k, input)
            /\ \A j \in 1..(k - 1) : ~Succeeds(j, input)
            /\ out = Ok([variant |-> VariantName[k], item |-> DecodeOf(Order[k], input).val])

\* C6: on every hex-valid string whose bytes all five decoders reject,
\* deserialize returns the error "unable to deserialize to any history
\* content item".
C6_DispatchTerminal ==
    (pc = "deserialized" /\ \A k \in 1..5 : ~Succeeds(k, input)) => out = WrongVariant

\* C7: for every variant, if a proper prefix of the input decodes, then the
\* input (that prefix followed by a non-empty suffix) does not.
C7_TrailingRejected ==
    (pc = "decoded" /\ \E n \in 0..(Len(input) - 1) : DecodeOf(variant, Take(input, n)).tag = "Ok")
        => out.tag # "Ok"

\* the blobs of an SSZ list of byte lists, with no bound on their number or size
Blobs(bytes) == VariableListOfBytes_from_ssz_bytes(bytes, Huge, Huge).val
Slices(bytes) == Container2_slices(bytes).val

\* C8: whenever decode succeeds the sizes are within the declared bounds: the
\* accumulator's records, the receipt and transaction lists' elements, the
\* header blob, every receipt blob, every transaction blob and the uncles
\* blob; and an encoding with a list or blob past its bound is not decoded.
C8_SizeBounds ==
    /\ (pc = "decoded" /\ out.tag = "Ok") =>
        CASE variant = "EpochAccumulator" ->
                /\ Len(out.val) <= MaxEpochRecords
                /\ Len(input) <= MaxEpochRecords * HeaderRecordLen
          [] variant = "Receipts" ->
                /\ Len(out.val) <= MaxReceipts
                /\ Len(Blobs(input)) <= MaxReceipts
                /\ \A i \in 1..Len(Blobs(input)) : Len(Blobs(input)[i]) <= MaxReceiptBytes
          [] variant = "HeaderWithProof" ->
                Len(Slices(input)[1]) <= MaxHeaderBytes
          [] variant = "BlockBody" ->
                /\ Len(out.val.transactions) <= MaxTransactions
                /\ Len(Blobs(Slices(input)[1])) <= MaxTransactions
                /\ \A i \in 1..Len(Blobs(Slices(input)[1])) :
                       Len(Blobs(Slices(input)[1])[i]) <= MaxTxBytes
                /\ Len(Slices(input)[2]) <= MaxUnclesBytes
          [] OTHER -> TRUE
    /\ (pc = "decoded" /\ input \in OverBoundBytes) => out.tag # "Ok"

\* a receipt list of exactly the bound's length has been decoded
C8_Witness ==
    /\ pc = "decoded" /\ variant = "Receipts" /\ out.tag = "Ok"
    /\ Len(out.val) = MaxReceipts
    /\ \E i \in 1..Len(Blobs(input)) : Len(Blobs(input)[i]) = MaxReceiptBytes

\* C9: SszOption decoding of selector 0 followed by a non-empty suffix fails;
\* only the single byte 0 decodes to the absent value.
C9_AbsentOnlyFromZeroByte ==
    (pc = "union_decoded" /\ Len(input) > 1 /\ input[1] = 0) => out.tag = "Err"

\* C10: SszOption decoding rejects every selector other than 0 and 1 with
\* UnionSelectorInvalid carrying that byte; with selector 1 and a malformed
\* body it returns the inner type's error; and a HeaderWithProof encoding
\* whose union selector is changed to 2 fails to decode with that error.
C10_SelectorRejected ==
    /\ (pc = "union_decoded" /\ input # <<>> /\ input[1] \notin {0, 1}) =>
            out = UnionSelectorInvalid(input[1])
    /\ (pc = "union_decoded" /\ input # <<>> /\ input[1] = 1
            /\ FixedVectorH256_from_ssz_bytes(Drop(input, 1)).tag = "Err") =>
            out = FixedVectorH256_from_ssz_bytes(Drop(input, 1))
    /\ (pc = "decoded" /\ variant = "HeaderWithProof" /\ input \in SelectorSwapped) =>
            /\ out.tag = "Err" /\ out.kind = "Ssz"
            /\ out.err = "UnionSelectorInvalid" /\ out.selector = 2

\* HeaderWithProof::decode has been given an encoding with a proof present
\* and the selector changed to 2
C10_Witness ==
    /\ pc = "decoded" /\ variant = "HeaderWithProof"
    /\ input \in SelectorSwapped /\ Len(input) > EPOCH_ACC_PROOF_LEN * H256Len
    /\ out.tag = "Err"

\* C11: serialization of an in-bounds item of any of the five variants
\* completes and produces exactly "0x" followed by the lower-case hex of the
\* variant's own encoding, with no discriminator byte before it.
C11_SerializeHex ==
    (pc = "serialized" /\ InBounds) =>
        out = Ok(<<"0", "x">> \o HexEncode(Encoding(variant, item.val)))

\* the digits of a string: what follows its "0x" or "0X" prefix, if it has one
Digits(s) ==
    IF Len(s) >= 2 /\ s[1] = "0" /\ s[2] \in {"x", "X"} THEN Drop(s, 2) ELSE s

\* C12: deserialization strips a leading "0x" of either case, so a string with
\* the prefix gives the same result as the string without it; and a string
\* whose digits are odd in number or contain a character that is no hex digit
\* is rejected with an error of the hex decoding.
C12_HexFraming ==
    /\ (pc \in {"deserialized", "framed"} /\ Digits(str) # str) =>
            out = HistoryContentItem_deserialize(Digits(str))
    /\ (pc \in {"deserialized", "framed"}
            /\ (Len(Digits(str)) % 2 = 1 \/ \E i \in 1..Len(Digits(str)) : HexVal(Digits(str)[i]) = -1)) =>
            /\ out.tag = "Err" /\ out.kind = "Custom"
            /\ out.err \in {"OddLength", "InvalidHexCharacter"}

\* C13: encode never completes on a value whose sizes exceed the declared
\* bounds, and the bytes it wrote never decode to a value other than the one
\* it was given.
C13_NoOutOfBoundsEncode ==
    /\ (pc = "encoded" /\ out.tag = "Ok") => InBounds
    /\ (pc = "redecoded" /\ out.tag = "Ok") => out.val = item.val

\* C14: whenever decode of a HeaderWithProof, a receipt list or a BlockBody
\* succeeds, every inner byte list (the header blob, each receipt blob, each
\* transaction blob, the uncles blob) was RLP-decoded using all of its bytes.
C14_InnerRlpConsumed ==
    (pc = "decoded" /\ out.tag = "Ok") =>
        CASE variant = "HeaderWithProof" ->
                RlpDecodeHeader(Slices(input)[1]).rest = <<>>
          [] variant = "Receipts" ->
                \A i \in 1..Len(Blobs(input)) : RlpDecodeReceipt(Blobs(input)[i]).rest = <<>>
          [] variant = "BlockBody" ->
                /\ \A i \in 1..Len(Blobs(Slices(input)[1])) :
                       RlpDecodeTransaction(Blobs(Slices(input)[1])[i]).rest = <<>>
                /\ RlpDecodeHeaderList(Slices(input)[2]).rest = <<>>
          [] OTHER -> TRUE

\* C15: ssz_append of an SszOption adds to the buffer the byte 0 for an absent
\* value and the byte 1 followed by the inner value's SSZ bytes for a present
\* one; ssz_bytes_len is the number of bytes added, 1 when absent and 1 plus
\* the inner length when present; and the type is variable-length for both
\* encoding and decoding.
C15_OptionLayout ==
    pc = "union_encoded" =>
        /\ buf = buf0 \o (IF item.val.proof.some
                           THEN <<1>> \o Flatten(item.val.proof.value)
                           ELSE <<0>>)
        /\ out.val.ssz_bytes_len = Len(buf) - Len(buf0)
        /\ out.val.ssz_bytes_len =
              IF item.val.proof.some THEN 1 + EPOCH_ACC_PROOF_LEN * H256Len ELSE 1
        /\ ~out.val.is_ssz_fixed_len
        /\ ~SszOption_Decode_is_ssz_fixed_len

\* a present proof has been appended to a buffer that already held bytes
C15_Witness ==
    /\ pc = "union_encoded" /\ item.val.proof.some /\ buf0 # <<>>
    /\ Len(buf) = Len(buf0) + 1 + EPOCH_ACC_PROOF_LEN * H256Len

\* C16: BlsSignature::from_ssz_bytes returns the signature made of the input
\* when the input is exactly 96 bytes and a decode error for every other
\* length, and never panics; the hex-string deserializer does the same on the
\* bytes of its string; and ssz_append of a decoded signature gives back
\* exactly the 96 input bytes.
C16_BlsDecodeTotal ==
    /\ pc = "bls_decoded" =>
            IF Len(input) = BLS_SIGNATURE_LEN THEN out = Ok([signature |-> input])
            ELSE out.tag = "Err"
    /\ (pc = "bls_deserialized" /\ str = hex_encode(input)) =>
            IF Len(input) = BLS_SIGNATURE_LEN THEN out = Ok([signature |-> input])
            ELSE out.tag = "Err"
    /\ (pc = "bls_deserialized" /\ str # hex_encode(input)) => out.tag = "Err"
    /\ pc = "bls_encoded" => buf = input

\* a step that changes the store appends the payload of one receive task that
\* had read to end-of-stream, and leaves the payloads stored before in place
StoreStep ==
    \/ utp_payload' = utp_payload
    \/ \E t \in RecvTasks :
          /\ recv[t].pc = "writing" /\ recv'[t].pc = "done"
          /\ utp_payload' = Append(utp_payload, recv[t].data)

\* a call of get_utp_payload that returns gives the hex of the payload stored
\* last, or "false" when none is stored
ReturnStep ==
    \A g \in GetCalls :
        (rpc[g].pc = "reading" /\ rpc'[g].pc = "returned") =>
            rpc'[g].result = IF utp_payload = <<>> THEN False
                             ELSE hex_encode(utp_payload[Len(utp_payload)])

\* C17: under every interleaving of the receive tasks and the calls of
\* get_utp_payload the payload store only grows, by one payload for each
\* receive task that has finished, no stored payload is removed or altered,
\* and get_utp_payload returns the hex of the payload appended last, or
\* "false" when nothing is stored.
C17_StoreOnlyGrows ==
    /\ [](Len(utp_payload) = Cardinality({t \in RecvTasks : recv[t].pc = "done"}))
    /\ [][StoreStep /\ ReturnStep]_vars

\* two different payloads are stored and a call has returned the hex of the
\* second while another receive task is still to push
C17_Witness ==
    /\ Len(utp_payload) = 2 /\ utp_payload[1] # utp_payload[2]
    /\ \E g \in GetCalls :
          rpc[g].pc = "returned" /\ rpc[g].result = hex_encode(utp_payload[2])

====
